---- MODULE Spec2Model ----
(***************************************************************************)
(* Task Management API (src/api/app.py): a Flask application over one      *)
(* SQLite table `task`, reached through Flask-SQLAlchemy.                  *)
(*                                                                         *)
(* Conventions of the model                                                *)
(*  - A text value is a sequence of one-character strings; None (Python    *)
(*    None, JSON null, SQL NULL) is a sequence whose only element is not   *)
(*    a character, so it differs from every text value.                    *)
(*  - A JSON object is a function from its keys to values; a key that is   *)
(*    absent from the object is absent from the function's domain.         *)
(*  - Each request handler runs as one atomic action (SQLite serialises    *)
(*    write transactions; the session is scoped to the request).           *)
(*  - datetime.utcnow() is read from `now`, a clock that never goes back   *)
(*    and has finite resolution: two reads may return the same value.      *)
(***************************************************************************)
EXTENDS Integers, Sequences, FiniteSets, TLC

VARIABLES tasks,        \* the rows of table `task`
          now,          \* the value datetime.utcnow() returns
          req,          \* the request handled last, while the clock read `now`
          resp,         \* its response: status code and JSON body
          txn,          \* how its transaction ended: "none", "commit", "rollback"
          before,       \* the rows of the table when that request arrived
          used,         \* history: every id ever assigned to a row
          createdOrder  \* history: ids of the stored rows that POST created, oldest first

vars == <<tasks, now, req, resp, txn, before, used, createdOrder>>

(* Bounds of the exploration *)
MaxId == 2
MaxClock == 1

None == << "<None>" >>

(* ------------------------------------------------------------------ *)
(* Text constants of the source                                        *)
(* ------------------------------------------------------------------ *)
S_Open == << "O", "p", "e", "n" >>
S_Closed == << "C", "l", "o", "s", "e", "d" >>
S_Call == << "C", "a", "l", "l" >>
S_Meeting == << "M", "e", "e", "t", "i", "n", "g" >>

Upper == << "A","B","C","D","E","F","G","H","I","J","K","L","M",
            "N","O","P","Q","R","S","T","U","V","W","X","Y","Z" >>
LowerCase == << "a","b","c","d","e","f","g","h","i","j","k","l","m",
                "n","o","p","q","r","s","t","u","v","w","x","y","z" >>

(* lower() of SQLite: ASCII letters only *)
LowerChar(c) ==
    IF \E i \in 1..Len(Upper) : Upper[i] = c
    THEN LowerCase[CHOOSE i \in 1..Len(Upper) : Upper[i] = c]
    ELSE c

Lower(s) == [i \in 1..Len(s) |-> LowerChar(s[i])]

(* x LIKE pattern of SQLite, no ESCAPE clause: '%' matches any run of    *)
(* characters, '_' matches exactly one character.                        *)
RECURSIVE Like(_, _)
Like(text, pat) ==
    IF pat = << >> THEN text = << >>
    ELSE IF Head(pat) = "%"
         THEN \E k \in 0..Len(text) : Like(SubSeq(text, k + 1, Len(text)), Tail(pat))
    ELSE IF text = << >> THEN FALSE
    ELSE IF Head(pat) = "_" THEN Like(Tail(text), Tail(pat))
    ELSE Head(pat) = Head(text) /\ Like(Tail(text), Tail(pat))

(* column.ilike(f'%{search}%'): lower(column) LIKE lower('%' || search || '%') *)
ILikeContains(col, search) ==
    col # None /\ Like(Lower(col), Lower(<< "%" >> \o search \o << "%" >>))

(* ------------------------------------------------------------------ *)
(* The Task model                                                      *)
(* ------------------------------------------------------------------ *)
NotNullColumns == {"date", "entity_name", "task_type", "time", "contact_person", "status"}

(* Task.to_dict: storage names to wire names, timestamps through isoformat() *)
Isoformat(t) == << "iso", t >>

to_dict(t) ==
    [ id            |-> t.id,
      date          |-> t.date,
      entityName    |-> t.entity_name,
      taskType      |-> t.task_type,
      time          |-> t.time,
      contactPerson |-> t.contact_person,
      notes         |-> t.notes,
      status        |-> t.status,
      phoneNumber   |-> t.phone_number,
      createdAt     |-> Isoformat(t.created_at),
      updatedAt     |-> Isoformat(t.updated_at) ]

(* Column defaults of an INSERT: created_at, then updated_at, each its own *)
(* call of datetime.utcnow (t0 is the first reading, t1 the second).       *)
InsertDefaultsSwapped(t0, t1) == [created_at |-> t1, updated_at |-> t0]

InsertDefaults(t0, t1) == [created_at |-> t0, updated_at |-> t1]

MakeRow(id, f, t0, t1) ==
    [ id             |-> id,
      date           |-> f.date,
      entity_name    |-> f.entity_name,
      task_type      |-> f.task_type,
      time           |-> f.time,
      contact_person |-> f.contact_person,
      notes          |-> f.notes,
      status         |-> f.status,
      phone_number   |-> f.phone_number,
      created_at     |-> InsertDefaults(t0, t1).created_at,
      updated_at     |-> InsertDefaults(t0, t1).updated_at ]

(* The two sample tasks of startup *)
Sample1 ==
    [ date           |-> << "2","0","2","5","-","0","6","-","1","4" >>,
      entity_name    |-> << "A","B","C"," ","P","v","t"," ","L","t","d" >>,
      task_type      |-> S_Call,
      time           |-> << "1","0",":","0","0"," ","A","M" >>,
      contact_person |-> << "R","a","v","i"," ","K","u","m","a","r" >>,
      notes          |-> << "F","o","l","l","o","w","-","u","p"," ","c","a","l","l"," ","f","o","r"," ","d","e","m","o" >>,
      status         |-> S_Open,
      phone_number   |-> << "+","9","1","-","9","8","7","6","5","4","3","2","1","0" >> ]

Sample2 ==
    [ date           |-> << "2","0","2","5","-","0","6","-","1","5" >>,
      entity_name    |-> << "X","Y","Z"," ","L","t","d" >>,
      task_type      |-> S_Meeting,
      time           |-> << "0","2",":","0","0"," ","P","M" >>,
      contact_person |-> << "S","u","r","e","s","h"," ","S","h","a","r","m","a" >>,
      notes          |-> << "C","l","i","e","n","t"," ","p","r","e","s","e","n","t","a","t","i","o","n" >>,
      status         |-> S_Closed,
      phone_number   |-> None ]

Ids(rows) == {t.id : t \in rows}

Row(rows, id) == CHOOSE t \in rows : t.id = id

Max(S) == CHOOSE x \in S : \A y \in S : y <= x

(* INTEGER PRIMARY KEY of SQLite without AUTOINCREMENT: the new rowid is *)
(* one more than the largest rowid in the table, 1 in an empty table.    *)
NextId(rows) == IF rows = {} THEN 1 ELSE Max(Ids(rows)) + 1

(* ------------------------------------------------------------------ *)
(* The session                                                         *)
(* ------------------------------------------------------------------ *)
(* A flush fails with IntegrityError when a NOT NULL column holds NULL *)
ViolatesNotNull(rows) == \E t \in rows : \E c \in NotNullColumns : t[c] = None

RollbackKeepsAttempt(pre, post) == post

(* db.session.rollback(): the table is as it was when the transaction began *)
Rollback(pre, post) == pre

(* db.session.commit() flushing the change from pre to post; diskOk is    *)
(* FALSE when the storage engine fails a write (nothing is written when  *)
(* the session holds no change)                                          *)
CommitOk(pre, post, diskOk) == (diskOk \/ post = pre) /\ ~ViolatesNotNull(post)

(* ------------------------------------------------------------------ *)
(* Requests and responses                                              *)
(* ------------------------------------------------------------------ *)
NoData == [k \in {} |-> None]

NoTask == [id |-> 0]

Request(op, id, data, search) == [op |-> op, id |-> id, data |-> data, search |-> search]

Response(status, success, task, list, error) ==
    [status |-> status, success |-> success, task |-> task, list |-> list, error |-> error]

(* dict.get(key): None when the key is absent *)
Get(data, k) == IF k \in DOMAIN data THEN data[k] ELSE None

(* `not value` of Python for None and for the empty string *)
Falsy(v) == v = None \/ v = << >>

required_fieldsNoStatus == << "entityName", "taskType", "time", "contactPerson", "date" >>

required_fields == << "entityName", "taskType", "time", "contactPerson", "date", "status" >>

(* the loop of create_task: index of the first required field that is falsy, 0 if none *)
FirstMissing(data) ==
    LET bad == {i \in 1..Len(required_fields) : Falsy(Get(data, required_fields[i]))}
    IN  IF bad = {} THEN 0 ELSE CHOOSE i \in bad : \A j \in bad : i <= j

(* data['...'] subscripts of the Task(...) constructor call: KeyError when absent *)
SubscriptKeys == {"date", "entityName", "taskType", "time", "contactPerson", "status"}

NewTaskFields(data) ==
    [ date           |-> data["date"],
      entity_name    |-> data["entityName"],
      task_type      |-> data["taskType"],
      time           |-> data["time"],
      contact_person |-> data["contactPerson"],
      notes          |-> Get(data, "notes"),
      status         |-> data["status"],
      phone_number   |-> Get(data, "phoneNumber") ]

(* every handler body sits in try/except Exception: whatever is raised,  *)
(* werkzeug's NotFound of get_or_404 included, becomes this status        *)
ExceptException(exc) == 500

E_NotFound == << "4","0","4"," ","N","o","t"," ","F","o","u","n","d" >>
E_KeyError == << "K","e","y","E","r","r","o","r" >>
E_Database == << "D","B","A","P","I","E","r","r","o","r" >>
E_Missing == << "M","i","s","s","i","n","g"," ","f","i","e","l","d",":"," " >>

(* the three `if key in data` assignments of update_task *)
ApplyPatchNotesAlways(task, data) ==
    LET a == IF "status" \in DOMAIN data THEN [task EXCEPT !.status = data["status"]] ELSE task
        b == IF "entityName" \in DOMAIN data THEN [a EXCEPT !.entity_name = data["entityName"]] ELSE a
    IN  [b EXCEPT !.notes = Get(data, "notes")]

ApplyPatch(task, data) ==
    LET a == IF "status" \in DOMAIN data THEN [task EXCEPT !.status = data["status"]] ELSE task
        b == IF "entityName" \in DOMAIN data THEN [a EXCEPT !.entity_name = data["entityName"]] ELSE a
        c == IF "notes" \in DOMAIN data THEN [b EXCEPT !.notes = data["notes"]] ELSE b
    IN  c

OnUpdateNever(old, new, t) == new

(* onupdate=datetime.utcnow: evaluated when the flush emits an UPDATE for *)
(* the row, which it does only if some attribute has a net change         *)
OnUpdate(old, new, t) == IF new # old THEN [new EXCEPT !.updated_at = t] ELSE new

(* filter(or_(entity_name.ilike(...), contact_person.ilike(...))) when search is truthy *)
Filtered(rows, search) ==
    IF search # << >>
    THEN {t \in rows : ILikeContains(t.entity_name, search) \/ ILikeContains(t.contact_person, search)}
    ELSE rows

OrderedAscending(q) == \A i, j \in 1..Len(q) : i < j => q[i].created_at <= q[j].created_at

(* order_by(Task.created_at.desc()): rows of equal created_at in any order *)
Ordered(q) == \A i, j \in 1..Len(q) : i < j => q[i].created_at >= q[j].created_at

Results(rows) ==
    {q \in [1..Cardinality(rows) -> rows] :
        /\ \A i, j \in 1..Cardinality(rows) : i # j => q[i] # q[j]
        /\ Ordered(q)}

(* ------------------------------------------------------------------ *)
(* Inputs explored                                                     *)
(* ------------------------------------------------------------------ *)
Without(d, k) == [x \in (DOMAIN d) \ {k} |-> d[x]]

With(d, k, v) == [x \in (DOMAIN d) \cup {k} |-> IF x = k THEN v ELSE d[x]]

S_Note == << "n","o","t","e" >>
S_NewCo == << "N","e","w"," ","C","o" >>

BaseData ==
    [ date          |-> << "2","0","2","5","-","0","6","-","1","6" >>,
      entityName    |-> << "A","c","m","e" >>,
      taskType      |-> S_Call,
      time          |-> << "1","1",":","3","0"," ","A","M" >>,
      contactPerson |-> << "A","s","h","a" >>,
      status        |-> S_Open ]

(* the fields a POST body must carry *)
RequiredSet == {"date", "entityName", "taskType", "time", "contactPerson", "status"}

(* request bodies of POST explored: complete ones, and for every required *)
(* field the body without it, with it empty and with it null                *)
AllCreateInputs ==
    {With(With(BaseData, "notes", S_Note), "phoneNumber", << "5","5","5" >>),
     Without(Without(BaseData, "status"), "date"),
     NoData}
    \cup {Without(BaseData, f) : f \in RequiredSet}
    \cup {With(BaseData, f, << >>) : f \in RequiredSet}
    \cup {With(BaseData, f, None) : f \in RequiredSet}

CreateInputs == {BaseData, Without(BaseData, "contactPerson")}

(* request bodies of PATCH explored *)
UpdateInputs ==
    {NoData,
     [status |-> S_Closed],
     [status |-> S_Closed, entityName |-> S_NewCo, notes |-> S_Note],
     [status |-> None, entityName |-> S_NewCo]}

FewUpdateInputs == {NoData, [status |-> S_Closed]}

(* values of ?search= explored *)
AllSearchTerms ==
    {<< >>, << "r","a","v","i" >>, << "L","T","D" >>, << "z","z" >>, << "%" >>, << "_" >>}

SearchTerms == {<< >>, << "r","a","v","i" >>}

RequestIds == 1..MaxId

(* ------------------------------------------------------------------ *)
(* Startup: create_all and the sample tasks in an empty database       *)
(* ------------------------------------------------------------------ *)
Init ==
    \E c1, u1, c2, u2 \in 0..MaxClock :
        /\ c1 = 0 /\ c1 <= u1 /\ u1 <= c2 /\ c2 <= u2
        /\ tasks = {MakeRow(1, Sample1, c1, u1), MakeRow(2, Sample2, c2, u2)}
        /\ now = u2
        /\ req = Request("startup", 0, NoData, << >>)
        /\ resp = Response(0, "-", NoTask, << >>, << >>)
        /\ txn = "commit"
        /\ before = {}
        /\ used = {1, 2}
        /\ createdOrder = << >>

(* time passes between two requests; the exchange observed is over *)
Tick ==
    /\ now < MaxClock
    /\ now' = now + 1
    /\ req' = Request("idle", 0, NoData, << >>)
    /\ resp' = Response(0, "-", NoTask, << >>, << >>)
    /\ txn' = "none"
    /\ before' = tasks
    /\ UNCHANGED <<tasks, used, createdOrder>>

(* GET /api/tasks *)
get_tasks(search) ==
    \E q \in Results(Filtered(tasks, search)) :
        /\ req' = Request("list", 0, NoData, search)
        /\ resp' = Response(200, "true", NoTask, [i \in 1..Len(q) |-> to_dict(q[i])], << >>)
        /\ txn' = "none"
        /\ before' = tasks
        /\ UNCHANGED <<tasks, now, used, createdOrder>>

(* POST /api/tasks *)
create_task(data) ==
    /\ req' = Request("create", 0, data, << >>)
    /\ before' = tasks
    /\ IF FirstMissing(data) # 0
       THEN /\ resp' = Response(400, "false", NoTask, << >>,
                                E_Missing \o << required_fields[FirstMissing(data)] >>)
            /\ txn' = "none"
            /\ UNCHANGED <<tasks, now, used, createdOrder>>
       ELSE IF ~(SubscriptKeys \subseteq DOMAIN data)
       THEN /\ resp' = Response(ExceptException("KeyError"), "false", NoTask, << >>, E_KeyError)
            /\ txn' = "rollback"
            /\ UNCHANGED <<tasks, now, used, createdOrder>>
       ELSE \E diskOk \in BOOLEAN, t1 \in {now, now + 1} :
            LET new_task == MakeRow(NextId(tasks), NewTaskFields(data), now, t1)
                post == tasks \cup {new_task}
            IN  /\ new_task.id <= MaxId
                /\ t1 <= MaxClock
                /\ IF CommitOk(tasks, post, diskOk)
                   THEN /\ tasks' = post
                        /\ now' = t1
                        /\ resp' = Response(201, "true", to_dict(new_task), << >>, << >>)
                        /\ txn' = "commit"
                        /\ used' = used \cup {new_task.id}
                        /\ createdOrder' = Append(createdOrder, new_task.id)
                   ELSE /\ tasks' = Rollback(tasks, post)
                        /\ resp' = Response(ExceptException("DBAPIError"), "false", NoTask, << >>, E_Database)
                        /\ txn' = "rollback"
                        /\ UNCHANGED <<now, used, createdOrder>>

(* GET /api/tasks/<id> *)
get_task(task_id) ==
    /\ req' = Request("get", task_id, NoData, << >>)
    /\ before' = tasks
    /\ txn' = "none"
    /\ IF task_id \in Ids(tasks)
       THEN resp' = Response(200, "-", to_dict(Row(tasks, task_id)), << >>, << >>)
       ELSE resp' = Response(ExceptException("NotFound"), "-", NoTask, << >>, E_NotFound)
    /\ UNCHANGED <<tasks, now, used, createdOrder>>

(* PATCH /api/tasks/<id> *)
update_task(task_id, data) ==
    /\ req' = Request("update", task_id, data, << >>)
    /\ before' = tasks
    /\ IF task_id \notin Ids(tasks)
       THEN /\ resp' = Response(ExceptException("NotFound"), "false", NoTask, << >>, E_NotFound)
            /\ txn' = "rollback"
            /\ UNCHANGED <<tasks, now, used, createdOrder>>
       ELSE \E diskOk \in BOOLEAN :
            LET old == Row(tasks, task_id)
                task == OnUpdate(old, ApplyPatch(old, data), now)
                post == (tasks \ {old}) \cup {task}
            IN  IF CommitOk(tasks, post, diskOk)
                THEN /\ tasks' = post
                     /\ resp' = Response(200, "true", to_dict(task), << >>, << >>)
                     /\ txn' = "commit"
                     /\ UNCHANGED <<now, used, createdOrder>>
                ELSE /\ tasks' = Rollback(tasks, post)
                     /\ resp' = Response(ExceptException("DBAPIError"), "false", NoTask, << >>, E_Database)
                     /\ txn' = "rollback"
                     /\ UNCHANGED <<now, used, createdOrder>>

(* DELETE /api/tasks/<id> *)
delete_task(task_id) ==
    /\ req' = Request("delete", task_id, NoData, << >>)
    /\ before' = tasks
    /\ IF task_id \notin Ids(tasks)
       THEN /\ resp' = Response(ExceptException("NotFound"), "-", NoTask, << >>, E_NotFound)
            /\ txn' = "rollback"
            /\ UNCHANGED <<tasks, now, used, createdOrder>>
       ELSE \E diskOk \in BOOLEAN :
            LET post == tasks \ {Row(tasks, task_id)}
            IN  IF CommitOk(tasks, post, diskOk)
                THEN /\ tasks' = post
                     /\ resp' = Response(200, "true", NoTask, << >>, << >>)
                     /\ txn' = "commit"
                     /\ createdOrder' = SelectSeq(createdOrder, LAMBDA i : i # task_id)
                     /\ UNCHANGED <<now, used>>
                ELSE /\ tasks' = Rollback(tasks, post)
                     /\ resp' = Response(ExceptException("DBAPIError"), "-", NoTask, << >>, E_Database)
                     /\ txn' = "rollback"
                     /\ UNCHANGED <<now, used, createdOrder>>

(* the requests a client may send, over the given sets of inputs *)
Requests(creates, updates, searches) ==
    \/ \E search \in searches : get_tasks(search)
    \/ \E data \in creates : create_task(data)
    \/ \E task_id \in RequestIds : get_task(task_id)
    \/ \E task_id \in RequestIds, data \in updates : update_task(task_id, data)
    \/ \E task_id \in RequestIds : delete_task(task_id)

Next == Tick \/ Requests(CreateInputs, UpdateInputs, SearchTerms)

Spec == Init /\ [][Next]_vars

(* the same program under the wide sets of POST bodies and search terms *)
NextInputs == Tick \/ Requests(AllCreateInputs, FewUpdateInputs, AllSearchTerms)

SpecInputs == Init /\ [][NextInputs]_vars

(* ================================================================== *)
(* Properties                                                          *)
(* ================================================================== *)
ListedIds == {resp.list[i].id : i \in 1..Len(resp.list)}

Position(id) == CHOOSE i \in 1..Len(resp.list) : resp.list[i].id = id

(* text contains term as a literal substring *)
ContainsLiteral(text, term) ==
    \E k \in 0..(Len(text) - Len(term)) : SubSeq(text, k + 1, k + Len(term)) = term

(* C1: a successful Create returns 201 and a positive id that no earlier  *)
(* task of the store's history, deleted ones included, ever had.          *)
C1_FreshId ==
    [][(req'.op = "create" /\ tasks' # tasks)
          => (resp'.status = 201 /\ resp'.task.id > 0 /\ resp'.task.id \notin used)]_vars

(* C2: GET, PATCH and DELETE on an id that is not the id of a stored task *)
(* respond with status 404.                                               *)
C2_NotFound ==
    (req.op \in {"get", "update", "delete"} /\ req.id \notin Ids(before))
        => resp.status = 404

(* C3: a Create whose body lacks one of the six required fields, or holds *)
(* it empty, answers 400 with an error naming a missing field, and leaves *)
(* the stored tasks as they were.                                         *)
C3_Validation ==
    (req.op = "create" /\ \E f \in RequiredSet : Falsy(Get(req.data, f)))
        => /\ resp.status = 400
           /\ \E f \in RequiredSet : Falsy(Get(req.data, f)) /\ resp.error = E_Missing \o << f >>
           /\ tasks = before

C3_Witness ==
    /\ req.op = "create"
    /\ req.data = Without(BaseData, "contactPerson")
    /\ resp.status = 400
    /\ resp.error = E_Missing \o << "contactPerson" >>

(* C4: a successful Update gives the fields among status, entityName and  *)
(* notes that the body carries the body's values, keeps every other field *)
(* of the task except updatedAt, and keeps every other task.              *)
C4_Frame ==
    (req.op = "update" /\ resp.status = 200)
        => /\ req.id \in Ids(before) /\ req.id \in Ids(tasks)
           /\ LET old == Row(before, req.id)
                  new == Row(tasks, req.id)
              IN  /\ tasks \ {new} = before \ {old}
                  /\ \A c \in {"id", "date", "task_type", "time", "contact_person",
                               "phone_number", "created_at"} : new[c] = old[c]
                  /\ new.status = IF "status" \in DOMAIN req.data
                                  THEN req.data["status"] ELSE old.status
                  /\ new.entity_name = IF "entityName" \in DOMAIN req.data
                                       THEN req.data["entityName"] ELSE old.entity_name
                  /\ new.notes = IF "notes" \in DOMAIN req.data
                                 THEN req.data["notes"] ELSE old.notes

C4_Witness ==
    /\ req.op = "update" /\ resp.status = 200
    /\ req.data = [status |-> S_Closed]
    /\ req.id \in Ids(before)
    /\ Row(before, req.id).status = S_Open
    /\ Row(before, req.id).notes # None
    /\ Cardinality(tasks) = 2

(* C5 as claimed: every successful Update sets the task's updatedAt to the *)
(* current time, also when the body changes no stored value.               *)
C5_AlwaysRefreshed ==
    (req.op = "update" /\ resp.status = 200)
        => Row(tasks, req.id).updated_at = now

(* C5 as amended: a successful Update that changes the stored value of at  *)
(* least one of status, entityName, notes sets updatedAt to the current    *)
(* time; one that changes none of them leaves updatedAt as it was.         *)
C5_RefreshedOnChange ==
    (req.op = "update" /\ resp.status = 200)
        => LET old == Row(before, req.id)
               new == Row(tasks, req.id)
           IN  IF << new.status, new.entity_name, new.notes >>
                      # << old.status, old.entity_name, old.notes >>
               THEN new.updated_at = now
               ELSE new.updated_at = old.updated_at

C5_Witness ==
    /\ req.op = "update" /\ resp.status = 200
    /\ Row(tasks, req.id).status # Row(before, req.id).status
    /\ Row(before, req.id).updated_at < now
    /\ Row(tasks, req.id).updated_at = now

(* C6: once Delete(id) has succeeded, the other tasks are all still stored, *)
(* and the next request, if a Get of that id, answers 404 and, if a List,   *)
(* returns no record with that id.                                          *)
C6_DeletedIsGone ==
    /\ []((req.op = "delete" /\ resp.status = 200)
            => tasks = before \ {Row(before, req.id)})
    /\ [][(req.op = "delete" /\ resp.status = 200)
            => /\ (req'.op = "get" /\ req'.id = req.id) => resp'.status = 404
               /\ req'.op = "list" => req.id \notin {resp'.list[i].id : i \in 1..Len(resp'.list)}]_vars

(* C7 as claimed: of two stored tasks made by Create requests, List returns *)
(* the one created later before the one created earlier.                    *)
C7_NewestFirst ==
    req.op = "list"
        => \A i, j \in 1..Len(createdOrder) :
              (i < j /\ createdOrder[i] \in ListedIds /\ createdOrder[j] \in ListedIds)
                  => Position(createdOrder[j]) < Position(createdOrder[i])

(* C7 as amended: of two stored tasks whose createdAt differ, List returns *)
(* the one with the later createdAt first, whatever Updates and Deletes    *)
(* came in between; tasks of equal createdAt come in either order.         *)
C7_NewestFirstStrict ==
    req.op = "list"
        => \A a, b \in before :
              (a.id \in ListedIds /\ b.id \in ListedIds /\ b.created_at > a.created_at)
                  => Position(b.id) < Position(a.id)

C7_Witness ==
    /\ req.op = "list"
    /\ Len(createdOrder) = 2
    /\ ListedIds = {createdOrder[1], createdOrder[2]}
    /\ Row(tasks, createdOrder[1]).created_at < Row(tasks, createdOrder[2]).created_at
    /\ Row(tasks, createdOrder[1]).updated_at >= Row(tasks, createdOrder[2]).created_at
    /\ Position(createdOrder[2]) = 1

(* C8: List with a non-empty search term succeeds and returns exactly the  *)
(* tasks whose entityName or contactPerson contains the term as a literal, *)
(* case-insensitive substring.                                             *)
C8_LiteralSubstring ==
    (req.op = "list" /\ req.search # << >>)
        => /\ resp.status = 200
           /\ ListedIds = {t.id : t \in
                  {u \in before : \/ ContainsLiteral(Lower(u.entity_name), Lower(req.search))
                                  \/ ContainsLiteral(Lower(u.contact_person), Lower(req.search))}}

(* C9: a Create, Update or Delete whose commit fails answers 500 and       *)
(* leaves the stored tasks exactly as they were before the request.        *)
C9_Rollback ==
    (req.op \in {"create", "update", "delete"} /\ txn = "rollback")
        => /\ resp.status = 500
           /\ tasks = before

C9_Witness ==
    /\ req.op = "update"
    /\ req.id \in Ids(before)
    /\ req.data = [status |-> None, entityName |-> S_NewCo]
    /\ resp.status = 500
    /\ resp.error = E_Database

(* C10: every stored task has createdAt <= updatedAt.                      *)
C10_CreatedBeforeUpdated == \A t \in tasks : t.created_at <= t.updated_at

C10_Witness ==
    /\ req.op = "update" /\ resp.status = 200
    /\ Row(tasks, req.id).created_at < Row(tasks, req.id).updated_at
    /\ Row(before, req.id).created_at = Row(before, req.id).updated_at

====
